---- MODULE Spec2Model ----
(***************************************************************************)
(* Model of timeline_check (src/src/main.rs): main() reads a hosts file    *)
(* lazily, probes every host in turn (pool connect, three joined status    *)
(* queries), collects Host values in `res` and prints them after the loop. *)
(***************************************************************************)
EXTENDS Integers, Sequences, FiniteSets, TLC

(* ---------------------------- bounds ----------------------------------- *)
MaxLines == 3

(* ------------------------ program constants ---------------------------- *)
max_connections == 4

HostNames == {"db-a", "db-b"}
Timelines == {7, 8}
Queries == {"is_primary", "timeline_id", "replica_attached"}

(* io::Result<String> items of the Lines iterator *)
OkLine(t) == [ok |-> TRUE, text |-> t]
ErrLine == [ok |-> FALSE, text |-> ""]
LineValues == {OkLine(n) : n \in HostNames} \cup {ErrLine}

RECURSIVE SeqsUpTo(_, _)
SeqsUpTo(S, n) ==
    IF n = 0 THEN {<< >>}
    ELSE LET shorter == SeqsUpTo(S, n - 1)
         IN  shorter \cup {Append(s, x) : s \in {t \in shorter : Len(t) = n - 1}, x \in S}

Files == SeqsUpTo(LineValues, MaxLines)

(* values a server can send back for each query, before the row mapping *)
ServerValues(q) ==
    IF q = "timeline_id" THEN Timelines ELSE BOOLEAN

DefaultValue(q) ==
    IF q = "timeline_id" THEN 0 ELSE FALSE

NoReply(q) == [st |-> "none", val |-> DefaultValue(q)]
NoReplies == [q \in Queries |-> NoReply(q)]

MapRowRaw(q, v) == v
(* the .map(|r: PgRow| ...) closure of each query *)
MapRow(q, v) ==
    IF q = "is_primary" THEN ~v ELSE v

VARIABLES
    file,        \* content of the hosts file: sequence of io::Result<String>
    file_opens,  \* whether File::open succeeds
    pc,          \* position of main
    panic,       \* which panic ended the process ("none" while running)
    i,           \* number of items taken from the `hosts` iterator
    probed,      \* per processed host: what the network answered
    qstate,      \* state of the three fetch_one futures of the current host
    qres,        \* output of the three futures (mapped value or error)
    qhost,       \* index of the host whose pool the futures run against
    in_use,      \* connections of the current pool checked out
    res,         \* the Vec<Host> accumulated by the loop
    printed,     \* number of entries of res already printed
    stdout       \* lines written to standard output

vars == <<file, file_opens, pc, panic, i, probed, qstate, qres, qhost,
          in_use, res, printed, stdout>>

Init ==
    /\ file_opens \in BOOLEAN
    /\ file \in Files
    /\ (~file_opens => file = << >>)
    /\ pc = "start"
    /\ panic = "none"
    /\ i = 0
    /\ probed = << >>
    /\ qstate = [q \in Queries |-> "idle"]
    /\ qres = NoReplies
    /\ qhost = 0
    /\ in_use = 0
    /\ res = << >>
    /\ printed = 0
    /\ stdout = << >>

(* ------------------------------ helpers -------------------------------- *)
PushFront(v, h) == <<h>> \o v
PushTwice(v, h) == Append(Append(v, h), h)
Push(v, h) == Append(v, h)

Acquire(n) == n + 1
ReleaseLeak(n) == n
Release(n) == n - 1

JoinReadyAny(qs) == \E q \in Queries : qs[q] = "done"
JoinReady(qs) == \A q \in Queries : qs[q] = "done"

HostOf(name, rs) ==
    [name |-> name,
     is_primary |-> rs["is_primary"].val,
     timeline_id |-> rs["timeline_id"].val,
     replica_attached |-> rs["replica_attached"].val]

RowLine(r) == [kind |-> "row", row |-> r]
ConnectErrorLine(h) == [kind |-> "connect_error", host |-> h]
ErrorTextLine == [kind |-> "error_text"]

(* ------------------------------ actions -------------------------------- *)
\* read_lines(cli.hosts) and the match on its result
OpenFile ==
    /\ pc = "start"
    /\ IF file_opens
       THEN /\ pc' = "next"
            /\ panic' = panic
       ELSE /\ pc' = "panic"
            /\ panic' = "open"
    /\ UNCHANGED <<file, file_opens, i, probed, qstate, qres, qhost, in_use,
                   res, printed, stdout>>

\* `for host in hosts`: one call of next() on lines.map(|l| l.unwrap())
NextLine ==
    /\ pc = "next"
    /\ IF i = Len(file)
       THEN /\ pc' = "print"
            /\ UNCHANGED <<i, panic>>
       ELSE /\ i' = i + 1
            /\ IF file[i + 1].ok
               THEN /\ pc' = "connecting"
                    /\ panic' = panic
               ELSE /\ pc' = "panic"
                    /\ panic' = "line"
    /\ UNCHANGED <<file, file_opens, probed, qstate, qres, qhost, in_use,
                   res, printed, stdout>>

\* connect_with(conn).await returned Ok: the three futures are created
ConnectOk ==
    /\ pc = "connecting"
    /\ probed' = Append(probed, [conn |-> "ok", reply |-> NoReplies])
    /\ qstate' = [q \in Queries |-> "pending"]
    /\ qres' = NoReplies
    /\ qhost' = i
    /\ in_use' = 0
    /\ pc' = "querying"
    /\ UNCHANGED <<file, file_opens, panic, i, res, printed, stdout>>

ConnectFailSilent ==
    /\ pc = "connecting"
    /\ probed' = Append(probed, [conn |-> "refused", reply |-> NoReplies])
    /\ pc' = "next"
    /\ UNCHANGED <<file, file_opens, panic, i, qstate, qres, qhost, in_use,
                   res, printed, stdout>>

ConnectFailAbort ==
    /\ pc = "connecting"
    /\ probed' = Append(probed, [conn |-> "refused", reply |-> NoReplies])
    /\ stdout' = stdout \o <<ConnectErrorLine(file[i].text), ErrorTextLine>>
    /\ pc' = "panic"
    /\ panic' = "connect"
    /\ UNCHANGED <<file, file_opens, i, qstate, qres, qhost, in_use,
                   res, printed>>

\* connect_with(conn).await returned Err: map_err prints, then `continue`
ConnectFail ==
    /\ pc = "connecting"
    /\ probed' = Append(probed, [conn |-> "refused", reply |-> NoReplies])
    /\ stdout' = stdout \o <<ConnectErrorLine(file[i].text), ErrorTextLine>>
    /\ pc' = "next"
    /\ UNCHANGED <<file, file_opens, panic, i, qstate, qres, qhost, in_use,
                   res, printed>>

\* join! polls a future for the first time: fetch_one takes a connection
StartQuery(q) ==
    /\ pc = "querying"
    /\ qstate[q] = "pending"
    /\ in_use < max_connections
    /\ in_use' = Acquire(in_use)
    /\ qstate' = [qstate EXCEPT ![q] = "running"]
    /\ UNCHANGED <<file, file_opens, pc, panic, i, probed, qres, qhost,
                   res, printed, stdout>>

\* the server answers query q with value v; the connection goes back
QueryOk(q, v) ==
    /\ pc = "querying"
    /\ qstate[q] = "running"
    /\ probed' = [probed EXCEPT ![qhost].reply[q] = [st |-> "ok", val |-> v]]
    /\ qres' = [qres EXCEPT ![q] = [st |-> "ok", val |-> MapRow(q, v)]]
    /\ qstate' = [qstate EXCEPT ![q] = "done"]
    /\ in_use' = Release(in_use)
    /\ UNCHANGED <<file, file_opens, pc, panic, i, qhost, res, printed, stdout>>

\* query q fails
QueryErr(q) ==
    /\ pc = "querying"
    /\ qstate[q] = "running"
    /\ probed' = [probed EXCEPT ![qhost].reply[q] =
                      [st |-> "error", val |-> DefaultValue(q)]]
    /\ qres' = [qres EXCEPT ![q] = [st |-> "error", val |-> DefaultValue(q)]]
    /\ qstate' = [qstate EXCEPT ![q] = "done"]
    /\ in_use' = Release(in_use)
    /\ UNCHANGED <<file, file_opens, pc, panic, i, qhost, res, printed, stdout>>

JoinSkip ==
    /\ pc = "querying"
    /\ JoinReady(qstate)
    /\ IF \A q \in Queries : qres[q].st = "ok"
       THEN res' = Push(res, HostOf(file[i].text, qres))
       ELSE res' = res
    /\ pc' = "next"
    /\ UNCHANGED <<file, file_opens, panic, i, probed, qstate, qres, qhost,
                   in_use, printed, stdout>>

\* join! returns; res.push(Host { .. }) with the three unwrap()s
Join ==
    /\ pc = "querying"
    /\ JoinReady(qstate)
    /\ IF \A q \in Queries : qres[q].st = "ok"
       THEN /\ res' = Push(res, HostOf(file[i].text, qres))
            /\ pc' = "next"
            /\ panic' = panic
       ELSE /\ res' = res
            /\ pc' = "panic"
            /\ panic' = "query"
    /\ UNCHANGED <<file, file_opens, i, probed, qstate, qres, qhost, in_use,
                   printed, stdout>>

PrintRowEarly ==
    /\ pc \in {"print", "next"}
    /\ printed < Len(res)
    /\ stdout' = Append(stdout, RowLine(res[printed + 1]))
    /\ printed' = printed + 1
    /\ UNCHANGED <<file, file_opens, pc, panic, i, probed, qstate, qres,
                   qhost, in_use, res>>

\* `for r in res { println!(..) }`: one iteration
PrintRow ==
    /\ pc = "print"
    /\ printed < Len(res)
    /\ stdout' = Append(stdout, RowLine(res[printed + 1]))
    /\ printed' = printed + 1
    /\ UNCHANGED <<file, file_opens, pc, panic, i, probed, qstate, qres,
                   qhost, in_use, res>>

\* the print loop is exhausted and main returns
Exit ==
    /\ pc = "print"
    /\ printed = Len(res)
    /\ pc' = "done"
    /\ UNCHANGED <<file, file_opens, panic, i, probed, qstate, qres, qhost,
                   in_use, res, printed, stdout>>

Next ==
    \/ OpenFile
    \/ NextLine
    \/ ConnectOk
    \/ ConnectFail
    \/ \E q \in Queries : StartQuery(q)
    \/ \E q \in Queries : \E v \in ServerValues(q) : QueryOk(q, v)
    \/ \E q \in Queries : QueryErr(q)
    \/ Join
    \/ PrintRow
    \/ Exit

Spec == Init /\ [][Next]_vars

FairSpec == Spec /\ WF_vars(Next)

(* ===================== vocabulary of the properties ==================== *)
RowLines == SelectSeq(stdout, LAMBDA l : l.kind = "row")
Rows == [k \in 1..Len(RowLines) |-> RowLines[k].row]
RowNames == [k \in 1..Len(Rows) |-> Rows[k].name]
FileNames == [k \in 1..Len(file) |-> file[k].text]
ConnectErrors == SelectSeq(stdout, LAMBDA l : l.kind = "connect_error")

Count(x, s) == Cardinality({k \in 1..Len(s) : s[k] = x})

RECURSIVE IsSubseq(_, _)
IsSubseq(s, t) ==
    IF s = << >> THEN TRUE
    ELSE IF t = << >> THEN FALSE
    ELSE IF Head(s) = Head(t) THEN IsSubseq(Tail(s), Tail(t))
    ELSE IsSubseq(s, Tail(t))

AllOk(p) == p.conn = "ok" /\ \A q \in Queries : p.reply[q].st = "ok"
AnyQueryError == \E q \in Queries : qres[q].st = "error"

\* hosts whose loop iteration has ended
Completed == IF pc = "querying" THEN Len(probed) - 1 ELSE Len(probed)

\* the row a host must get from what its own server answered
RowFrom(name, p) ==
    [name |-> name,
     is_primary |-> ~p.reply["is_primary"].val,
     timeline_id |-> p.reply["timeline_id"].val,
     replica_attached |-> p.reply["replica_attached"].val]

RECURSIVE RowsFor(_, _)
RowsFor(names, log) ==
    IF log = << >> THEN << >>
    ELSE (IF AllOk(Head(log)) THEN <<RowFrom(Head(names), Head(log))>> ELSE << >>)
         \o RowsFor(Tail(names), Tail(log))

\* positions of the hosts whose connection was not refused, in order
RECURSIVE Kept(_)
Kept(n) ==
    IF n = 0 THEN << >>
    ELSE IF probed[n].conn = "refused" THEN Kept(n - 1)
    ELSE Append(Kept(n - 1), n)

Refused == {k \in 1..Len(probed) : probed[k].conn = "refused"}

(* ============================== C1 ===================================== *)
\* C1: the host names of the printed rows, in print order, form a
\* subsequence of the lines of the hosts file: rows appear in file order.
C1_RowsInFileOrder == IsSubseq(RowNames, FileNames)

C1_Witness ==
    /\ pc = "done"
    /\ Len(Rows) = 2
    /\ Rows[1].name # Rows[2].name

(* ============================== C2 ===================================== *)
\* C2: a host whose connection fails gets exactly one diagnostic line naming
\* it and no row, the loop goes on with the next line, and the printed rows
\* are those of the list with the refused hosts taken out.
C2_DiagnosticsPerRefusal ==
    /\ Len(ConnectErrors) = Cardinality(Refused)
    /\ \A h \in HostNames :
         Cardinality({k \in 1..Len(ConnectErrors) : ConnectErrors[k].host = h})
           = Cardinality({k \in Refused : file[k].text = h})

C2_RowsWithoutRefused ==
    pc = "done" =>
        LET keep == Kept(Len(probed))
        IN  /\ Len(Rows) = Len(probed) - Cardinality(Refused)
            /\ Rows = RowsFor([k \in 1..Len(keep) |-> file[keep[k]].text],
                              [k \in 1..Len(keep) |-> probed[keep[k]]])

C2_RefusalStep ==
    (pc = "connecting" /\ Len(probed') = Len(probed) + 1
       /\ probed'[Len(probed')].conn = "refused")
    => /\ pc' = "next"
       /\ res' = res
       /\ i' = i
       /\ Len(stdout') = Len(stdout) + 2
       /\ stdout'[Len(stdout) + 1] = ConnectErrorLine(file[i].text)

C2_ConnectFailureSkipsHost ==
    /\ [](C2_DiagnosticsPerRefusal /\ C2_RowsWithoutRefused)
    /\ [][C2_RefusalStep]_vars

C2_Witness ==
    /\ pc = "done"
    /\ Len(probed) = 3
    /\ probed[2].conn = "refused"
    /\ Len(Rows) = 2

(* ============================== C3 ===================================== *)
\* C3: when a query of a connected host has failed, the joint wait ends in a
\* panic: nothing is appended for that host, and no later line is read or
\* probed once the process has panicked.
C3_JoinStep ==
    (pc = "querying" /\ pc' # "querying" /\ AnyQueryError)
    => /\ pc' = "panic"
       /\ panic' = "query"
       /\ res' = res

C3_AbortedState ==
    panic = "query" =>
        /\ pc = "panic"
        /\ Len(probed) = i
        /\ ~AllOk(probed[i])
        /\ Len(res) = Cardinality({k \in 1..(i - 1) : AllOk(probed[k])})

C3_QueryFailureAborts ==
    /\ [][C3_JoinStep]_vars
    /\ []C3_AbortedState
    /\ [][pc = "panic" => (probed' = probed /\ i' = i /\ res' = res)]_vars

C3_Witness ==
    /\ panic = "query"
    /\ i < Len(file)
    /\ file[i + 1].ok
    /\ Len(res) = 1

(* ============================== C4 ===================================== *)
\* C4: in a run that ended with a hosts-file read error (open failure or an
\* undecodable line at any position) no connection was attempted.
C4_ReadErrorBeforeAnyProbe ==
    panic \in {"open", "line"} => Len(probed) = 0

(* ============================== C5 ===================================== *)
\* C5: every line gives zero or one Host, one exactly when its connection
\* and its three queries succeeded; so there are at most as many rows as
\* lines, every row name is a line of the file, and no name is printed more
\* often than it occurs in the file.
C5_ZeroOrOnePerLine ==
    /\ Len(res) = Cardinality({k \in 1..Completed : AllOk(probed[k])})
    /\ Len(Rows) <= Len(res)
    /\ (pc = "done" => Len(Rows) = Len(res))
    /\ Len(Rows) <= Len(file)
    /\ \A k \in 1..Len(Rows) : \E j \in 1..Len(file) : file[j].ok /\ file[j].text = Rows[k].name
    /\ \A h \in HostNames : Count(h, RowNames) <= Count(h, FileNames)

C5_Witness ==
    /\ pc = "done"
    /\ Len(file) = 3
    /\ Len(Rows) = 2
    /\ Rows[1].name = Rows[2].name

(* ============================== C6 ===================================== *)
\* C6: when the file is readable and every connection attempt fails, the
\* run ends normally, with no row and one connection diagnostic per line.
C6_PremiseBroken ==
    \/ ~file_opens
    \/ \E k \in 1..Len(file) : ~file[k].ok
    \/ \E k \in 1..Len(probed) : probed[k].conn = "ok"

C6_Safe ==
    ~C6_PremiseBroken =>
        /\ pc # "panic"
        /\ panic = "none"
        /\ (pc = "done" =>
              /\ Rows = << >>
              /\ Len(ConnectErrors) = Len(file)
              /\ \A k \in 1..Len(file) : ConnectErrors[k].host = file[k].text)

C6_AllUnreachableEndsNormally ==
    /\ []C6_Safe
    /\ <>(pc = "done" \/ C6_PremiseBroken)

C6_Witness ==
    /\ pc = "done"
    /\ ~C6_PremiseBroken
    /\ Len(file) >= 2

(* ============================== C7 ===================================== *)
\* C7: the collected and printed rows are exactly (line, not in-recovery
\* answer, timeline answer, replica-exists answer) of each fully probed
\* host, built from that host's own answers.
C7_RowsAreOwnAnswers ==
    /\ res = RowsFor(SubSeq(FileNames, 1, Completed), SubSeq(probed, 1, Completed))
    /\ Rows = SubSeq(res, 1, printed)
    /\ (pc = "done" => Rows = res)

C7_Witness ==
    /\ pc = "done"
    /\ Len(Rows) = 2
    /\ Rows[1].is_primary /\ ~probed[1].reply["is_primary"].val
    /\ ~Rows[2].is_primary
    /\ Rows[1].timeline_id # Rows[2].timeline_id
    /\ Rows[1].replica_attached # Rows[2].replica_attached

(* ============================== C8 ===================================== *)
\* C8 (as stated): the pool never has more than 4 connections in use and
\* never more than one at a time.
C8_OneConnectionAtATime ==
    /\ in_use <= max_connections
    /\ in_use <= 1

\* C8 (amended): the pool never has more than 4 connections in use; every
\* query in flight holds one connection, so up to three are in use at once.
C8_OneConnectionPerRunningQuery ==
    /\ in_use <= max_connections
    /\ in_use = Cardinality({q \in Queries : qstate[q] = "running"})
    /\ in_use <= Cardinality(Queries)

C8_Witness ==
    /\ pc = "querying"
    /\ in_use = 3

(* ============================== C9 ===================================== *)
\* C9: at most one host has a probe in progress; a connection attempt is
\* made only when no query is running, and the joint wait is left only when
\* all three queries have finished, also when one of them failed.
C9_InProgress ==
    (IF pc = "connecting" THEN {i} ELSE {})
    \cup (IF \E q \in Queries : qstate[q] \in {"pending", "running"} THEN {qhost} ELSE {})

C9_OneHostAtATime ==
    /\ [](Cardinality(C9_InProgress) <= 1)
    /\ [](pc = "connecting" => \A q \in Queries : qstate[q] \in {"idle", "done"})
    /\ [][(pc = "querying" /\ pc' # "querying")
            => \A q \in Queries : qstate[q] = "done"]_vars
    /\ [][(i' # i) => (i' = i + 1 /\ Completed = i)]_vars

C9_Witness ==
    /\ pc = "querying"
    /\ i = 2
    /\ probed[1].conn = "ok"
    /\ qres["is_primary"].st = "error"
    /\ qstate["timeline_id"] = "running"

(* ============================== C10 ==================================== *)
\* C10: rows are printed only after the probing loop has consumed the whole
\* file; a run that panics has printed no row, whatever it had collected.
C10_NoRowBeforeLoopEnd ==
    /\ (Rows # << >> => (pc \in {"print", "done"} /\ i = Len(file)
                          /\ Completed = Len(file)))
    /\ (pc = "panic" => Rows = << >>)

C10_Witness ==
    /\ pc = "panic"
    /\ panic = "line"
    /\ Len(res) >= 1

====
